---- MODULE Spec2Model ----
(***************************************************************************)
(* Model of run_dashboard's post-processing inventory check (pp_funcs.py). *)
(*                                                                         *)
(* Python strings are sequences of one-character strings, so that the     *)
(* code's replace/split/find/glob idioms are modelled by what they do.     *)
(***************************************************************************)
EXTENDS Integers, Sequences, FiniteSets, TLC

(***************************************************************************)
(* Python string primitives                                                *)
(***************************************************************************)

Digits == <<"0", "1", "2", "3", "4", "5", "6", "7", "8", "9">>

IsDigit(c) == \E i \in 1..10 : Digits[i] = c

DigitVal(c) == (CHOOSE i \in 1..10 : Digits[i] = c) - 1

\* int(s) for a string of digits
RECURSIVE ToInt(_)
ToInt(s) ==
    IF s = <<>> THEN 0
    ELSE 10 * ToInt(SubSeq(s, 1, Len(s) - 1)) + DigitVal(s[Len(s)])

\* str.isspace() of one character
IsSpace(c) == c \in {" ", "\t", "\n"}

\* p occurs in s at the 1-based position i
StartsAt(s, p, i) ==
    /\ i >= 1
    /\ i + Len(p) - 1 <= Len(s)
    /\ \A k \in 1..Len(p) : s[i + k - 1] = p[k]

\* the lowest 1-based position of p in s from position i on, 0 when absent
RECURSIVE FindFrom(_, _, _)
FindFrom(s, p, i) ==
    IF i + Len(p) - 1 > Len(s) THEN 0
    ELSE IF StartsAt(s, p, i) THEN i
    ELSE FindFrom(s, p, i + 1)

\* s.find(p): lowest 0-based index of p in s, -1 when absent
Find(s, p) == FindFrom(s, p, 1) - 1

\* the highest 1-based position of p in s up to position i, 0 when absent
RECURSIVE RFindFrom(_, _, _)
RFindFrom(s, p, i) ==
    IF i < 1 THEN 0
    ELSE IF StartsAt(s, p, i) THEN i
    ELSE RFindFrom(s, p, i - 1)

\* s.rfind(p): highest 0-based index of p in s, -1 when absent
RFind(s, p) == RFindFrom(s, p, Len(s) - Len(p) + 1) - 1

\* s.replace(old, new) for a non-empty old: left to right, non-overlapping
RECURSIVE Replace(_, _, _)
Replace(s, old, new) ==
    IF s = <<>> THEN <<>>
    ELSE IF StartsAt(s, old, 1)
         THEN new \o Replace(SubSeq(s, Len(old) + 1, Len(s)), old, new)
         ELSE <<s[1]>> \o Replace(Tail(s), old, new)

\* s.split(): the maximal runs of non-whitespace characters
RECURSIVE Split(_)
Split(s) ==
    IF s = <<>> THEN <<>>
    ELSE IF IsSpace(s[1]) THEN Split(Tail(s))
    ELSE LET n == CHOOSE m \in 1..Len(s) :
                    /\ \A k \in 1..m : ~IsSpace(s[k])
                    /\ (m = Len(s) \/ IsSpace(s[m + 1]))
         IN  <<SubSeq(s, 1, n)>> \o Split(SubSeq(s, n + 1, Len(s)))

\* p in s
Contains(s, p) == \E i \in 1..(Len(s) + 1) : StartsAt(s, p, i)

\* s.endswith(p)
EndsWith(s, p) == StartsAt(s, p, Len(s) - Len(p) + 1)

\* os.path.basename(p): what follows the last slash
Basename(p) == SubSeq(p, RFind(p, <<"/">>) + 2, Len(p))

\* s.rstrip("/")
RECURSIVE RStripSlash(_)
RStripSlash(s) ==
    IF s # <<>> /\ s[Len(s)] = "/" THEN RStripSlash(SubSeq(s, 1, Len(s) - 1))
    ELSE s

\* os.path.dirname(p): what precedes the last slash, trailing slashes
\* stripped unless the head is made of slashes only
Dirname(p) ==
    LET head == SubSeq(p, 1, RFind(p, <<"/">>) + 1)
    IN  IF head # <<>> /\ RStripSlash(head) # <<>> THEN RStripSlash(head)
        ELSE head

(***************************************************************************)
(* datestr2date                                                            *)
(***************************************************************************)

IsLeap(y) == (y % 4 = 0 /\ y % 100 # 0) \/ y % 400 = 0

DaysInMonth(y, m) ==
    IF m = 2 THEN (IF IsLeap(y) THEN 29 ELSE 28)
    ELSE IF m \in {4, 6, 9, 11} THEN 30 ELSE 31

\* datetime.strptime accepts the string under "%Y", "%Y%m", "%Y%m%d" or
\* "%Y%m%d%H": digits only, year >= 1, month 01-12, a day of that month,
\* hour 00-23
StrptimeOk(s) ==
    /\ \A i \in 1..Len(s) : IsDigit(s[i])
    /\ ToInt(SubSeq(s, 1, 4)) >= 1
    /\ Len(s) >= 6 => ToInt(SubSeq(s, 5, 6)) \in 1..12
    /\ Len(s) >= 8 =>
         ToInt(SubSeq(s, 7, 8)) \in
           1..DaysInMonth(ToInt(SubSeq(s, 1, 4)), ToInt(SubSeq(s, 5, 6)))
    /\ Len(s) >= 10 => ToInt(SubSeq(s, 9, 10)) \in 0..23

\* datestr2date(datestring): the decoded date (its year is all the callers
\* read), or a raised NotImplementedError / ValueError
datestr2date(datestring) ==
    IF Len(datestring) \notin {4, 6, 8, 10}
    THEN [err |-> TRUE, year |-> 0]
    ELSE IF ~StrptimeOk(datestring)
    THEN [err |-> TRUE, year |-> 0]
    ELSE [err |-> FALSE, year |-> ToInt(SubSeq(datestring, 1, 4))]

(***************************************************************************)
(* create_pp_series                                                        *)
(***************************************************************************)

\* the default None of startyear / endyear
None == -1

\* np.nan, the count of a year with no file
NaN == -1

Nc == <<".", "n", "c">>

\* glob(f"{ppsubdir}/*.nc") as base names: glob skips hidden entries
GlobNc(dir) == {f \in dir : EndsWith(f, Nc) /\ f[1] # "."}

\* f.replace(".", " ").split()
DotFields(f) == Split(Replace(f, <<".">>, <<" ">>))

\* glob(f"{ppsubdir}/*{date}*.nc"): the names that hold date before ".nc"
GlobDate(dir, date) ==
    {f \in dir : /\ f[1] # "."
                 /\ EndsWith(f, Nc)
                 /\ Contains(SubSeq(f, 1, Len(f) - 3), date)}

\* lines 49-51 raise IndexError on a name with fewer than three fields
ListFails(dir) == \E f \in GlobNc(dir) : Len(DotFields(f)) < 3

\* dates = list(set(second field of every file))
Dates(dir) == {DotFields(f)[2] : f \in GlobNc(dir)}

\* date.replace("-", " ").split()
DateParts(date) == Split(Replace(date, <<"-">>, <<" ">>))

\* the body of the loop over dates raises (IndexError or a decoding error)
DateFails(date) ==
    \/ Len(DateParts(date)) < 2
    \/ datestr2date(DateParts(date)[1]).err
    \/ datestr2date(DateParts(date)[2]).err

\* dateend.year
EndYear(date) == datestr2date(DateParts(date)[2]).year

\* nfiles.update({key: val})
DictUpdate(d, key, val) ==
    [k \in DOMAIN d \cup {key} |-> IF k = key THEN val ELSE d[k]]

\* one pass of the loop body: indexes.append(...); nfiles.update(...)
DateStep(dir, date, nf, ix) ==
    [nfiles  |-> DictUpdate(nf, EndYear(date), Cardinality(GlobDate(dir, date))),
     indexes |-> Append(ix, EndYear(date))]

Range(s) == {s[i] : i \in 1..Len(s)}

\* np.sort
NpSort(s) == SortSeq(s, LAMBDA a, b : a < b)

\* np.diff
NpDiff(s) == [i \in 1..(Len(s) - 1) |-> s[i + 1] - s[i]]

\* ndarray.min() of a non-empty array
NpMin(s) == CHOOSE x \in Range(s) : \A y \in Range(s) : x <= y

\* np.arange(start, stop, step) raises for a zero step
ArangeFails(start, stop, step) == step = 0

\* np.arange(start, stop, step), step > 0
Arange(start, stop, step) ==
    LET n == IF stop <= start THEN 0 ELSE (stop - start + step - 1) \div step
    IN  [k \in 1..n |-> start + (k - 1) * step]

\* pd.Series(data=nfiles, index=indexes).sort_index(): <<year, count>> pairs
MkSeries(nf, ix) ==
    LET sorted == NpSort(ix)
    IN  [i \in 1..Len(sorted) |-> <<sorted[i], nf[sorted[i]]>>]

\* a cadence of one year guessed when the differences do not give one
CadenceGuessed(enddates) ==
    IF enddates = <<>>
    THEN [err |-> TRUE, dur |-> None]
    ELSE IF Len(NpDiff(enddates)) = 0 \/ NpMin(NpDiff(enddates)) = 0
    THEN [err |-> FALSE, dur |-> 1]
    ELSE [err |-> FALSE, dur |-> NpMin(NpDiff(enddates))]

\* line 62: np.diff(enddates).min(); min() of an empty array raises
Cadence(enddates) ==
    IF Len(NpDiff(enddates)) = 0
    THEN [err |-> TRUE, dur |-> None]
    ELSE [err |-> FALSE, dur |-> NpMin(NpDiff(enddates))]

\* lines 61-71: the result of filling in the missing dates
FillMissing(nf, ix, sy, ey) ==
    LET enddates == NpSort(ix)
        cad      == Cadence(enddates)
    IN  IF cad.err
        THEN [err |-> TRUE, dur |-> None, nfiles |-> nf, indexes |-> ix,
              series |-> <<>>]
        ELSE
        LET dur      == cad.dur
            start    == IF sy = None THEN enddates[1] ELSE sy
            end      == IF ey = None THEN enddates[Len(enddates)] ELSE ey
        IN  IF ArangeFails(start, end + dur, dur)
            THEN [err |-> TRUE, dur |-> dur, nfiles |-> nf, indexes |-> ix,
                  series |-> <<>>]
            ELSE
            LET expected == Arange(start, end + dur, dur)
                missing  == SelectSeq(expected,
                                      LAMBDA d : d \notin Range(enddates))
                ix2 == ix \o missing
                nf2 == [y \in DOMAIN nf \cup Range(missing) |->
                          IF y \in Range(missing) THEN NaN ELSE nf[y]]
            IN  [err |-> FALSE, dur |-> dur, nfiles |-> nf2, indexes |-> ix2,
                 series |-> MkSeries(nf2, ix2)]

(***************************************************************************)
(* infer_properties_from_ppdir                                             *)
(***************************************************************************)

\* [_.start() for _ in re.finditer("-", s)]: 0-based positions, ascending
HyphenStarts(s) ==
    SelectSeq([i \in 1..Len(s) |-> i - 1], LAMBDA i : s[i + 1] = "-")

\* line 211: the position of the second hyphen
Cut(s) == HyphenStarts(s)[2]

\* lines 208-216: the dict returned, or err when an index is out of range
infer_properties_from_ppdir(path) ==
    LET parts == Split(Replace(path, <<"/">>, <<" ">>))
    IN  IF Len(parts) < 5 \/ Len(HyphenStarts(parts[5])) < 2
        THEN [err |-> TRUE, runname |-> <<>>, platform |-> <<>>,
              runtype |-> <<>>]
        ELSE LET platform_runtype == parts[5]
                 cut == Cut(platform_runtype)
             IN  [err      |-> FALSE,
                  runname  |-> parts[4],
                  platform |-> SubSeq(platform_runtype, 1, cut),
                  runtype  |-> SubSeq(platform_runtype, cut + 2,
                                      Len(platform_runtype))]

(***************************************************************************)
(* all_dirs_model                                                          *)
(***************************************************************************)

\* the non-empty slash-separated components of a path
RECURSIVE PathComponents(_)
PathComponents(path) ==
    IF path = <<>> THEN <<>>
    ELSE IF path[1] = "/" THEN PathComponents(Tail(path))
    ELSE LET n == CHOOSE m \in 1..Len(path) :
                    /\ \A k \in 1..m : path[k] # "/"
                    /\ (m = Len(path) \/ path[m + 1] = "/")
         IN  <<SubSeq(path, 1, n)>> \o PathComponents(SubSeq(path, n + 1, Len(path)))

\* a wildcard of glob does not match a hidden entry
Hidden(name) == name # <<>> /\ name[1] = "."

\* glob(f"{root}/{mdl}*/{kind}/**/*.nc", recursive=True) over the files fsys:
\* a component starting with mdl, the component kind, any number of
\* directories, and a name ending in .nc
GlobModel(fsys, root, mdl, kind) ==
    {f \in fsys :
       /\ StartsAt(f, root \o <<"/">>, 1)
       /\ LET parts == PathComponents(SubSeq(f, Len(root) + 2, Len(f)))
          IN  /\ Len(parts) >= 3
              /\ StartsAt(parts[1], mdl, 1)
              /\ ~Hidden(parts[1])
              /\ parts[2] = kind
              /\ \A i \in 3..Len(parts) : ~Hidden(parts[i])
              /\ EndsWith(parts[Len(parts)], Nc)}

\* line 88: the directories that hold the files found
AllDirs(fsys, root, mdl, kind) ==
    {Dirname(f) : f \in GlobModel(fsys, root, mdl, kind)}

\* os.path.basename(d).replace('_', ' ').split()
UnderscoreTokens(d) == Split(Replace(Basename(d), <<"_">>, <<" ">>))

\* line 91 raises IndexError on a base name without any token
PeriodFails(dirs, kind) ==
    kind = <<"a", "v">> /\ \E d \in dirs : UnderscoreTokens(d) = <<>>

\* lines 90-93: the period of one directory
Period(d, kind) ==
    IF kind = <<"a", "v">>
    THEN UnderscoreTokens(d)[Len(UnderscoreTokens(d))]
    ELSE Basename(d)

\* line 99: d.find(p) != -1
Belongs(d, p, kind) == Find(d, p) # -1

\* lines 95-101: period -> the directories listed under it
DictDirs(dirs, kind) ==
    [p \in {Period(d, kind) : d \in dirs} |->
        {d \in dirs : Belongs(d, p, kind)}]

(***************************************************************************)
(* create_pp_series as a function of the directory and of the order in     *)
(* which list(set(...)) yields the dates                                   *)
(***************************************************************************)

\* the orders in which the members of S can be listed
Orders(S) == {o \in [1..Cardinality(S) -> S] : Range(o) = S}

\* lines 54-59 over the dates in the given order
RECURSIVE LoopDates(_, _, _, _)
LoopDates(names, order, nf, ix) ==
    IF order = <<>> THEN [err |-> FALSE, nfiles |-> nf, indexes |-> ix]
    ELSE IF DateFails(Head(order))
    THEN [err |-> TRUE, nfiles |-> nf, indexes |-> ix]
    ELSE LET r == DateStep(names, Head(order), nf, ix)
         IN  LoopDates(names, Tail(order), r.nfiles, r.indexes)

\* lines 48-71: the series returned, or err when the call raises
create_pp_series(names, sy, ey, order) ==
    IF ListFails(names) THEN [err |-> TRUE, series |-> <<>>]
    ELSE LET l == LoopDates(names, order, <<>>, <<>>)
         IN  IF l.err THEN [err |-> TRUE, series |-> <<>>]
             ELSE LET r == FillMissing(l.nfiles, l.indexes, sy, ey)
                  IN  [err |-> r.err, series |-> r.series]

(***************************************************************************)
(* pp_to_dataframe                                                         *)
(***************************************************************************)

Pp == <<"p", "p">>

\* glob(f"{ppsubdir}/*.nc") sees the entries of ppsubdir: their base names
Listing(fsys, subdir) == {Basename(f) : f \in {g \in fsys : Dirname(g) = subdir}}

\* lines 119-123: the directory holds no "pp"
LabelFails(subdir) == Find(subdir, Pp) = -1

\* line 124: subdir[lim:]
ShortLabel(subdir) == SubSeq(subdir, Find(subdir, Pp) + 1, Len(subdir))

\* pd.DataFrame()
EmptyFrame == [index |-> {}, cols |-> <<>>]

SeriesYears(ser) == {ser[i][1] : i \in 1..Len(ser)}

SeriesAt(ser, y) == ser[CHOOSE i \in 1..Len(ser) : ser[i][1] = y][2]

\* lines 125-137: pd.concat([df, pd.DataFrame({name: ser})], axis=1), an
\* outer join on the years: a year one side lacks holds NaN on that side
Concat(frame, name, ser) ==
    LET index == frame.index \cup SeriesYears(ser)
    IN  [index |-> index,
         cols  |-> [i \in 1..Len(frame.cols) |->
                      [name |-> frame.cols[i].name,
                       data |-> [y \in index |->
                                   IF y \in frame.index
                                   THEN frame.cols[i].data[y] ELSE NaN]]]
                   \o << [name |-> name,
                          data |-> [y \in index |->
                                      IF y \in SeriesYears(ser)
                                      THEN SeriesAt(ser, y) ELSE NaN]] >>]

(***************************************************************************)
(* plot_files_as_bars                                                      *)
(***************************************************************************)

\* s.strip() of whitespace
RECURSIVE Strip(_)
Strip(s) ==
    IF s # <<>> /\ IsSpace(s[1]) THEN Strip(Tail(s))
    ELSE IF s # <<>> /\ IsSpace(s[Len(s)]) THEN Strip(SubSeq(s, 1, Len(s) - 1))
    ELSE s

\* int(s) accepts s: an optional sign, then digits that single underscores
\* may group, whitespace around ignored
IntParses(s) ==
    LET t == Strip(s)
        body == IF t # <<>> /\ t[1] \in {"+", "-"} THEN Tail(t) ELSE t
    IN  /\ body # <<>>
        /\ IsDigit(body[1])
        /\ IsDigit(body[Len(body)])
        /\ \A i \in 1..Len(body) : IsDigit(body[i]) \/ body[i] = "_"
        /\ \A i \in 1..(Len(body) - 1) : ~(body[i] = "_" /\ body[i + 1] = "_")

\* line 191: int(segment.replace("yr", "")) raises ValueError
PlotFails(segment) == ~IntParses(Replace(segment, <<"y", "r">>, <<>>))

(***************************************************************************)
(* check_for_missing and create_pp_fix_button                              *)
(***************************************************************************)

\* a test of the cells by equality with nan, which no cell passes
MissingYearsByEquality(data) == {}

\* line 230: the index of df[col].loc[df[col].isnull()]
MissingYears(data) == {y \in DOMAIN data : data[y] = NaN}

\* col.replace("pp", "").replace("/", " ").split()
ComponentTokens(col) == Split(Replace(Replace(col, Pp, <<>>), <<"/">>, <<" ">>))

\* line 233 raises IndexError when nothing is left of the label
ComponentFails(col) == ComponentTokens(col) = <<>>

\* line 233
Component(col) == ComponentTokens(col)[1]

\* the members of a set of integers, ascending
RECURSIVE Ascending(_)
Ascending(S) ==
    IF S = {} THEN <<>>
    ELSE LET m == CHOOSE x \in S : \A y \in S : x <= y
         IN  <<m>> \o Ascending(S \ {m})

\* lines 234-235, 270-275: the buttons displayed for one column, one per
\* missing year; segment and col are kept with the button to tell which
\* cell of which table it was created for
ColumnButtons(c, segment) ==
    LET years == Ascending(MissingYears(c.data))
    IN  [i \in 1..Len(years) |->
           [segment |-> segment, col |-> c.name, comp |-> Component(c.name),
            year |-> years[i]]]

\* lines 229-237 over the columns in their order: the buttons created, and
\* err when line 233 raises
RECURSIVE check_for_missing(_, _, _)
check_for_missing(cols, segment, made) ==
    IF cols = <<>> THEN [err |-> FALSE, buttons |-> made]
    ELSE IF MissingYears(Head(cols).data) = {}
    THEN check_for_missing(Tail(cols), segment, made)
    ELSE IF ComponentFails(Head(cols).name)
    THEN [err |-> TRUE, buttons |-> made]
    ELSE check_for_missing(Tail(cols), segment,
                           made \o ColumnButtons(Head(cols), segment))

(***************************************************************************)
(* run_frepp_command and the callback of the fix button                    *)
(***************************************************************************)

\* str(n)
RECURSIVE IntToStr(_)
IntToStr(n) ==
    IF n < 10 THEN <<Digits[n + 1]>>
    ELSE IntToStr(n \div 10) \o <<Digits[(n % 10) + 1]>>

\* s.zfill(4)
RECURSIVE ZFill4(_)
ZFill4(s) == IF Len(s) >= 4 THEN s ELSE ZFill4(<<"0">> \o s)

\* line 254: str(year).zfill(4)
CYear(year) == ZFill4(IntToStr(year))

\* line 255: the f-string of the frepp command
FreppCmd(comp, year, d) ==
    <<"m", "o", "d", "u", "l", "e", " ", "l", "o", "a", "d", " ", "f", "r", "e", "/">> \o d.freversion
    \o <<" ", ";", " ", "f", "r", "e", "p", "p", " ", "-", "t", " ">> \o CYear(year)
    \o <<"0", "1", "0", "1", " ", "-", "R", " ", "-", "Y", " ">> \o CYear(year)
    \o <<" ", "-", "Z", " ">> \o CYear(year)
    \o <<" ", "-", "s", " ", "-", "x", " ">> \o d.xmlpath
    \o <<" ", "-", "P", " ">> \o d.platform
    \o <<" ", "-", "T", " ">> \o d.runtype
    \o <<" ", "-", "c", " ">> \o comp
    \o <<" ">> \o d.runname

\* line 257: subprocess.check_call returns 0, and raises CalledProcessError
\* on any other exit code
CheckCallOutcome(code) ==
    IF code = 0 THEN [raised |-> FALSE, out |-> 0]
    ELSE [raised |-> TRUE, out |-> None]

\* lines 254-258: the command printed and run once, and how the call ends
run_frepp_command(comp, year, d, code) ==
    [cmd    |-> FreppCmd(comp, year, d),
     runs   |-> 1,
     raised |-> CheckCallOutcome(code).raised,
     out    |-> CheckCallOutcome(code).out]

\* lines 280-283: the message printed for a returned value
Message(out) ==
    IF out = 0 THEN "pp job submitted successfully" ELSE "problem submitting"

\* lines 277-283: what the click adds to the output widget; an exception
\* raised inside "with output:" is shown there and no message is printed
on_button_clicked(b, d, code) ==
    LET r == run_frepp_command(b.comp, b.year, d, code)
    IN  [cmd  |-> r.cmd,
         runs |-> r.runs,
         out  |-> r.out,
         said |-> IF r.raised THEN "CalledProcessError" ELSE Message(r.out)]

(***************************************************************************)
(* State                                                                   *)
(***************************************************************************)

VARIABLES
    pc,                \* position of the running call
    dir,               \* create_pp_series: base names found in ppsubdir
    startyear,         \* override for the first year, or None
    endyear,           \* override for the last year, or None
    todo,              \* dates the loop of line 54 has not visited yet
    nfiles,            \* dict year -> number of files
    indexes,           \* list of years
    segment_duration,  \* the inferred cadence, None until line 62 has run
    series,            \* the returned pandas.Series, <<>> until returned
    ppdir,             \* the post-processing root path
    freppdict,         \* the dict of experiment parameters
    fs,                \* the files on disk, as full paths
    model,             \* the component filter
    ftype,             \* "ts" or "av"
    all_dirs,          \* dict period -> directories
    dfout,             \* pp_verif: return the dataframe
    segs,              \* pp_verif: keys of all_dirs the loop has not visited
    segment,           \* the key being processed
    subdirs,           \* pp_to_dataframe: directories not yet added to df
    df,                \* the dataframe of the segment
    df_bound,          \* the local name df of pp_verif is bound
    buttons,           \* the fix buttons displayed, in order of creation
    returned,          \* what pp_verif returned: "df", "None", or "" before
    output,            \* what the clicks have added to the output widget
    lastrun            \* the exit code of the last frepp process

seriesVars ==
    <<dir, startyear, endyear, todo, nfiles, indexes, segment_duration, series>>

metaVars == <<ppdir, freppdict>>

dirsVars == <<fs, model, ftype, all_dirs>>

verifVars == <<dfout, segs, segment, subdirs, df, df_bound, buttons, returned>>

fixVars == <<output, lastrun>>

vars == <<pc, seriesVars, metaVars, dirsVars, verifVars, fixVars>>

\* values of the variables a call does not use
IdleSeries ==
    /\ dir = {}
    /\ startyear = None
    /\ endyear = None
    /\ todo = {}
    /\ nfiles = <<>>
    /\ indexes = <<>>
    /\ segment_duration = None
    /\ series = <<>>

EmptyDict ==
    [runname |-> <<>>, platform |-> <<>>, runtype |-> <<>>, xmlpath |-> <<>>,
     freversion |-> <<>>]

IdleMeta == ppdir = <<>> /\ freppdict = EmptyDict

IdleDirs == fs = {} /\ model = <<>> /\ ftype = <<>> /\ all_dirs = <<>>

IdleVerif ==
    /\ dfout = FALSE
    /\ segs = {}
    /\ segment = <<>>
    /\ subdirs = {}
    /\ df = EmptyFrame
    /\ df_bound = FALSE
    /\ buttons = <<>>
    /\ returned = ""

IdleFix == output = <<>> /\ lastrun = None

(***************************************************************************)
(* Inputs of create_pp_series                                              *)
(***************************************************************************)

\* most distinct segment tokens in one directory
MaxTokens == 3

\* most files carrying one segment token
MaxPerToken == 2

Year(y) == ZFill4(IntToStr(y))

Token(beg, end) == beg \o <<"-">> \o end

\* segment tokens a directory may hold: yearly segments, and a segment given
\* to the month that ends in 2001 like the yearly one
TokenPool ==
    { Token(Year(2000), Year(2000)),
      Token(Year(2001), Year(2001)),
      Token(Year(2003), Year(2003)),
      Token(Year(2001), Year(2001) \o <<"1", "2">>) }

VarNames == <<"a", "b", "c", "d">>

\* <component>.<segment>.<variable>.nc
FileName(tok, k) == <<"o", ".">> \o tok \o <<".", VarNames[k]>> \o Nc

Directories ==
    UNION { { UNION { {FileName(t, k) : k \in 1..c[t]} : t \in T } :
                c \in [T -> 1..MaxPerToken] } :
            T \in {S \in SUBSET TokenPool : Cardinality(S) <= MaxTokens} }

\* <<startyear, endyear>> as the caller may pass them
Overrides ==
    { <<None, None>>, <<1999, None>>, <<None, 2004>>, <<2002, 2006>> }

(***************************************************************************)
(* create_pp_series as a process                                           *)
(***************************************************************************)

InitSeries ==
    /\ pc = "series_start"
    /\ dir \in Directories
    /\ \E o \in Overrides : startyear = o[1] /\ endyear = o[2]
    /\ todo = {}
    /\ nfiles = <<>>
    /\ indexes = <<>>
    /\ segment_duration = None
    /\ series = <<>>
    /\ IdleMeta
    /\ IdleDirs
    /\ IdleVerif
    /\ IdleFix

\* lines 48-53
ListFiles ==
    /\ pc = "series_start"
    /\ IF ListFails(dir)
       THEN pc' = "series_error" /\ UNCHANGED todo
       ELSE pc' = "series_loop" /\ todo' = Dates(dir)
    /\ UNCHANGED <<dir, startyear, endyear, nfiles, indexes,
                   segment_duration, series, metaVars, dirsVars, verifVars,
                   fixVars>>

\* lines 54-59, one date; the order of list(set(...)) is arbitrary
ProcessDate ==
    /\ pc = "series_loop"
    /\ \E date \in todo :
         IF DateFails(date)
         THEN /\ pc' = "series_error"
              /\ UNCHANGED <<todo, nfiles, indexes>>
         ELSE /\ pc' = pc
              /\ todo' = todo \ {date}
              /\ LET r == DateStep(dir, date, nfiles, indexes)
                 IN  nfiles' = r.nfiles /\ indexes' = r.indexes
    /\ UNCHANGED <<dir, startyear, endyear, segment_duration, series,
                   metaVars, dirsVars, verifVars,
                   fixVars>>

\* lines 61-71
FillIn ==
    /\ pc = "series_loop"
    /\ todo = {}
    /\ LET r == FillMissing(nfiles, indexes, startyear, endyear)
       IN  /\ pc' = IF r.err THEN "series_error" ELSE "series_done"
           /\ segment_duration' = r.dur
           /\ nfiles' = r.nfiles
           /\ indexes' = r.indexes
           /\ series' = r.series
    /\ UNCHANGED <<dir, startyear, endyear, todo, metaVars, dirsVars,
                   verifVars,
                   fixVars>>

NextSeries == ListFiles \/ ProcessDate \/ FillIn

SpecSeries == InitSeries /\ [][NextSeries]_vars

(***************************************************************************)
(* What a directory shows, read off its file names                         *)
(***************************************************************************)

\* the end-years of the segments the files of d carry
ObservedEndYears(d) == {EndYear(t) : t \in Dates(d)}

\* the files of d whose segment ends in year y
FilesEndingIn(d, y) == {f \in GlobNc(d) : EndYear(DotFields(f)[2]) = y}

\* two segment tokens of d end in the same year
SharedEndYear(d) ==
    \E t1, t2 \in Dates(d) : t1 # t2 /\ EndYear(t1) = EndYear(t2)

SetMin(S) == CHOOSE x \in S : \A y \in S : x <= y

SetMax(S) == CHOOSE x \in S : \A y \in S : x >= y

\* the least positive difference of two members of S
MinPositiveDiff(S) == SetMin({b - a : <<a, b>> \in {p \in S \X S : p[2] > p[1]}})

ExpectedStart == IF startyear = None THEN SetMin(ObservedEndYears(dir)) ELSE startyear

ExpectedEnd == IF endyear = None THEN SetMax(ObservedEndYears(dir)) ELSE endyear

\* the entries of the returned series keyed y
EntriesAt(y) == {i \in 1..Len(series) : series[i][1] = y}

SeriesReturned == pc = "series_done"

SeriesFailed == pc = "series_error"

(***************************************************************************)
(* Claims about create_pp_series                                           *)
(***************************************************************************)

\* C1: when the directory shows at least two distinct end-years, the call
\* returns a series that has, for every year start + k*cadence up to end,
\* exactly one entry, NaN iff no file ends in that year and the number of
\* files ending in it otherwise.
C1_SeriesCoversExpectedYears ==
    (/\ SeriesReturned \/ SeriesFailed
     /\ Cardinality(ObservedEndYears(dir)) >= 2)
    => /\ SeriesReturned
       /\ LET cadence == MinPositiveDiff(ObservedEndYears(dir))
          IN  \A y \in ExpectedStart..ExpectedEnd :
                (y - ExpectedStart) % cadence = 0 =>
                  /\ Cardinality(EntriesAt(y)) = 1
                  /\ \A i \in EntriesAt(y) :
                       /\ series[i][2] = NaN <=> y \notin ObservedEndYears(dir)
                       /\ y \in ObservedEndYears(dir) =>
                            series[i][2] = Cardinality(FilesEndingIn(dir, y))

\* C1 holds of the directories in which no two segment tokens end in the
\* same year.
C1_HoldsWithoutSharedEndYear == SharedEndYear(dir) \/ C1_SeriesCoversExpectedYears

\* C2: the inferred cadence is the least positive difference of two distinct
\* observed end-years, and is never 0.
C2_CadenceIsMinPositiveDiff ==
    segment_duration # None =>
        /\ segment_duration # 0
        /\ Cardinality(ObservedEndYears(dir)) >= 2 =>
             segment_duration = MinPositiveDiff(ObservedEndYears(dir))

\* C3: a directory that shows fewer than two distinct end-years never gets a
\* series: the call ends in an error and nothing is returned.
C3_NoSeriesFromSingleEndYear ==
    /\ ~SeriesReturned => series = <<>>
    /\ (SeriesReturned \/ SeriesFailed) =>
         \A ys \in {ObservedEndYears(dir)} :
           /\ SeriesReturned => Cardinality(ys) >= 2
           /\ (SeriesFailed /\ ~ListFails(dir)
                 /\ \A t \in Dates(dir) : ~DateFails(t))
                => (Cardinality(ys) < 2 \/ SharedEndYear(dir))

\* C3 witness: two segment tokens ending in the one observed year, and the
\* call has failed.
C3_Witness ==
    /\ SeriesFailed
    /\ Len(indexes) >= 2
    /\ Cardinality(ObservedEndYears(dir)) = 1

\* C4: the count recorded under an observed end-year is the number of files
\* of the directory whose segment ends in that year, whatever the order in
\* which the segment tokens were visited.
C4_CountPerEndYear ==
    \A y \in DOMAIN nfiles :
        nfiles[y] # NaN => nfiles[y] = Cardinality(FilesEndingIn(dir, y))

\* C10: every sentinel entry of the returned series lies within
\* start..end.
C10_SentinelsWithinRange ==
    SeriesReturned =>
        \A i \in 1..Len(series) :
            series[i][2] = NaN =>
                ExpectedStart <= series[i][1] /\ series[i][1] <= ExpectedEnd

(***************************************************************************)
(* infer_properties_from_ppdir as a call                                   *)
(***************************************************************************)

\* "/".join(parts)
RECURSIVE JoinSlash(_)
JoinSlash(parts) ==
    IF parts = <<>> THEN <<>>
    ELSE IF Len(parts) = 1 THEN parts[1]
    ELSE parts[1] \o <<"/">> \o JoinSlash(Tail(parts))

\* fifth components: no hyphen, one, two, more than two, adjacent hyphens
PlatformPool ==
    { <<"p">>, <<"p", "-", "i">>, <<"p", "-", "i", "-", "o">>,
      <<"p", "-", "i", "-", "o", "-", "m">>, <<"p", "-", "-", "o">>,
      <<"-", "i", "-">>, <<"p", ".", "n", "-", "i", "1", "-", "o">>,
      <<"p", "i">> }

\* second components: a user name, and one that holds a space
UserPool == { <<"u">>, <<"J", " ", "D">> }

RunPool == { <<"r", "1">>, <<"r", "2">> }

\* the longest root: /a/<user>/x/<run>/<platform-runtype>/pp
RootParts(user, run, plat) ==
    << <<"a">>, user, <<"x">>, run, plat, <<"p", "p">> >>

\* the roots a caller may pass: every leading part of a longest root
PpDirPool ==
    { <<"/">> \o JoinSlash(SubSeq(RootParts(u, r, pl), 1, n)) :
        <<u, r, pl, n>> \in UserPool \X RunPool \X PlatformPool \X (3..6) }

InitMeta ==
    /\ pc = "meta_start"
    /\ ppdir \in PpDirPool
    /\ freppdict = EmptyDict
    /\ IdleSeries
    /\ IdleDirs
    /\ IdleVerif
    /\ IdleFix

\* lines 208-216
InferProperties ==
    /\ pc = "meta_start"
    /\ LET r == infer_properties_from_ppdir(ppdir)
       IN  /\ pc' = IF r.err THEN "meta_error" ELSE "meta_done"
           /\ freppdict' = IF r.err THEN freppdict
                           ELSE [freppdict EXCEPT !.runname = r.runname,
                                                  !.platform = r.platform,
                                                  !.runtype = r.runtype]
    /\ UNCHANGED <<ppdir, seriesVars, dirsVars, verifVars,
                   fixVars>>

NextMeta == InferProperties

SpecMeta == InitMeta /\ [][NextMeta]_vars

(***************************************************************************)
(* Claim about infer_properties_from_ppdir                                 *)
(***************************************************************************)

NumHyphens(s) == Cardinality({i \in 1..Len(s) : s[i] = "-"})

\* the path has a fifth component that holds two hyphens
WellFormedRoot(path) ==
    /\ Len(PathComponents(path)) >= 5
    /\ NumHyphens(PathComponents(path)[5]) >= 2

HasSpace(path) == \E i \in 1..Len(path) : IsSpace(path[i])

\* C9: runname is the 4th slash-separated component; platform and runtype
\* are the 5th component before and after its second hyphen; a path with
\* fewer than 5 components, or fewer than two hyphens in the 5th, fails.
C9_MetadataFromPath ==
    /\ pc = "meta_done" =>
         /\ WellFormedRoot(ppdir)
         /\ freppdict.runname = PathComponents(ppdir)[4]
         /\ freppdict.platform \o <<"-">> \o freppdict.runtype
              = PathComponents(ppdir)[5]
         /\ NumHyphens(freppdict.platform) = 1
    /\ pc = "meta_error" => ~WellFormedRoot(ppdir) /\ freppdict = EmptyDict

\* C9 holds of the roots that hold no whitespace.
C9_HoldsWithoutSpace == HasSpace(ppdir) \/ C9_MetadataFromPath

(***************************************************************************)
(* all_dirs_model as a call                                                *)
(***************************************************************************)

Ts == <<"t", "s">>

Av == <<"a", "v">>

\* the post-processing root of the runs below
Root == <<"/">> \o JoinSlash(RootParts(<<"u">>, <<"r", "1">>, <<"p", "-", "i", "-", "o">>))

Yr5 == <<"5", "y", "r">>

Yr15 == <<"1", "5", "y", "r">>

Mon == <<"m", "o", "n">>

\* directories under the root, relative to it: time-series directories of
\* two periods and two components, one right under ts, one whose base name
\* is part of other paths, one of another model, and two of averages
DirPool ==
    { << <<"o", "m">>, Ts, Mon, Yr5 >>,
      << <<"o", "m">>, Ts, Mon, Yr15 >>,
      << <<"o", "a">>, Ts, <<"a", "n", "n">>, Yr5 >>,
      << <<"o", "m">>, Ts, Mon >>,
      << <<"l", "m">>, Ts, Mon, Yr5 >>,
      << <<"o", "m">>, Av, Mon \o <<"_">> \o Yr5 >>,
      << <<"o", "m">>, Av, <<"a", "n", "n", "_">> \o Yr15 >> }

DirPath(rel) == Root \o <<"/">> \o JoinSlash(rel)

\* the file every directory of this call holds
AFile == FileName(Token(Year(2000), Year(2000)), 1)

InitDirs ==
    /\ pc = "dirs_start"
    /\ \E D \in SUBSET DirPool : fs = {DirPath(rel) \o <<"/">> \o AFile : rel \in D}
    /\ model \in { <<"o">>, <<"l">> }
    /\ ftype \in {Ts, Av}
    /\ all_dirs = <<>>
    /\ ppdir = Root
    /\ freppdict = EmptyDict
    /\ IdleSeries
    /\ IdleVerif
    /\ IdleFix

\* lines 86-101
AllDirsModel ==
    /\ pc = "dirs_start"
    /\ LET dirs == AllDirs(fs, ppdir, model, ftype)
       IN  IF PeriodFails(dirs, ftype)
           THEN pc' = "dirs_error" /\ UNCHANGED all_dirs
           ELSE pc' = "dirs_done" /\ all_dirs' = DictDirs(dirs, ftype)
    /\ UNCHANGED <<fs, model, ftype, seriesVars, metaVars, verifVars,
                   fixVars>>

NextDirs == AllDirsModel

SpecDirs == InitDirs /\ [][NextDirs]_vars

(***************************************************************************)
(* Claim about all_dirs_model                                              *)
(***************************************************************************)

\* what follows the last c in s (all of s when c is absent)
AfterLast(s, c) ==
    LET cut == IF \E i \in 1..Len(s) : s[i] = c
               THEN CHOOSE i \in 1..Len(s) :
                      s[i] = c /\ \A j \in (i + 1)..Len(s) : s[j] # c
               ELSE 0
    IN  SubSeq(s, cut + 1, Len(s))

\* the segment-length label of a directory: its base name for ts, the last
\* underscore-separated token of the base name for av
Label(d, kind) ==
    IF kind = Av THEN AfterLast(AfterLast(d, "/"), "_") ELSE AfterLast(d, "/")

\* the directories of the files that match the component and the kind
Discovered == AllDirs(fs, ppdir, model, ftype)

\* C5: a directory is listed under label L iff L is its label, so every
\* discovered directory is listed under exactly one label.
C5_ListedUnderOwnLabelOnly ==
    pc = "dirs_done" =>
        /\ \A L \in DOMAIN all_dirs : \A d \in Discovered :
               d \in all_dirs[L] <=> L = Label(d, ftype)
        /\ \A d \in Discovered :
               Cardinality({L \in DOMAIN all_dirs : d \in all_dirs[L]}) = 1

(***************************************************************************)
(* pp_verif as a process                                                   *)
(***************************************************************************)

XmlPath == <<"x", ".", "x", "m", "l">>

FreVersion == <<"b", "1", "9">>

\* the files of a directory, by the end-years of their yearly segments
YearFiles(years) == {FileName(Token(Year(y), Year(y)), 1) : y \in years}

\* every year there, twice for 2000
Complete == YearFiles({2000, 2001, 2002}) \cup {FileName(Token(Year(2000), Year(2000)), 2)}

\* 2002 is missing between 2001 and 2003
WithGap == YearFiles({2000, 2001, 2003})

\* starts a year later than the others
Late == YearFiles({2001, 2002})

\* a single end-year
OneYear == YearFiles({2000})

Om5 == << <<"o", "m">>, Ts, Mon, Yr5 >>

Oa5 == << <<"o", "a">>, Ts, <<"a", "n", "n">>, Yr5 >>

Om15 == << <<"o", "m">>, Ts, Mon, Yr15 >>

OmAv5 == << <<"o", "m">>, Av, Mon \o <<"_">> \o Yr5 >>

VerifDirs == {Om5, Oa5, Om15, OmAv5}

\* what each directory may hold ({}: the directory is absent)
Contents(rel) ==
    IF rel = Om5 THEN {{}, Complete, WithGap}
    ELSE IF rel = Oa5 THEN {{}, Late, OneYear}
    ELSE IF rel = Om15 THEN {{}, Late}
    ELSE {{}, WithGap}

FilesOf(content) ==
    UNION { {DirPath(rel) \o <<"/">> \o n : n \in content[rel]} : rel \in VerifDirs }

InitVerif ==
    /\ pc = "verif_start"
    /\ ppdir = Root
    /\ freppdict = EmptyDict
    /\ \E content \in [VerifDirs -> UNION {Contents(rel) : rel \in VerifDirs}] :
         /\ \A rel \in VerifDirs : content[rel] \in Contents(rel)
         /\ fs = FilesOf(content)
    /\ model = <<"o">>
    /\ ftype \in {Ts, Av}
    /\ dfout \in BOOLEAN
    /\ \E o \in {<<None, None>>, <<None, 2004>>} :
         startyear = o[1] /\ endyear = o[2]
    /\ all_dirs = <<>>
    /\ segs = {}
    /\ segment = <<>>
    /\ subdirs = {}
    /\ df = EmptyFrame
    /\ df_bound = FALSE
    /\ buttons = <<>>
    /\ returned = ""
    /\ IdleFix
    /\ dir = {}
    /\ todo = {}
    /\ nfiles = <<>>
    /\ indexes = <<>>
    /\ segment_duration = None
    /\ series = <<>>

\* lines 167-169
VerifInfer ==
    /\ pc = "verif_start"
    /\ LET r == infer_properties_from_ppdir(ppdir)
       IN  IF r.err
           THEN pc' = "verif_error" /\ UNCHANGED freppdict
           ELSE /\ pc' = "verif_dirs"
                /\ freppdict' = [runname |-> r.runname, platform |-> r.platform,
                                 runtype |-> r.runtype, xmlpath |-> XmlPath,
                                 freversion |-> FreVersion]
    /\ UNCHANGED <<ppdir, seriesVars, dirsVars, verifVars,
                   fixVars>>

\* line 171, and the keys the loop of line 173 will visit
VerifFindDirs ==
    /\ pc = "verif_dirs"
    /\ \E dirs \in {AllDirs(fs, ppdir, model, ftype)} :
           IF PeriodFails(dirs, ftype)
           THEN pc' = "verif_error" /\ UNCHANGED <<all_dirs, segs>>
           ELSE \E d \in {DictDirs(dirs, ftype)} :
                /\ pc' = "verif_loop"
                /\ all_dirs' = d
                /\ segs' = DOMAIN d
    /\ UNCHANGED <<fs, model, ftype, seriesVars, metaVars, dfout, segment,
                   subdirs, df, df_bound, buttons, returned,
                   fixVars>>

\* lines 173-174 and 117-118: the next key; pp_to_dataframe starts
VerifSegment ==
    /\ pc = "verif_loop"
    /\ \E seg \in segs :
         /\ segs' = segs \ {seg}
         /\ segment' = seg
         /\ subdirs' = all_dirs[seg]
    /\ df' = EmptyFrame
    /\ pc' = "verif_frame"
    /\ UNCHANGED <<seriesVars, metaVars, dirsVars, dfout, df_bound, buttons,
                   returned,
                   fixVars>>

\* lines 118-137, one directory of all_dirs[segment]
AddColumn ==
    /\ pc = "verif_frame"
    /\ \E subdir \in subdirs :
         IF LabelFails(subdir)
         THEN pc' = "verif_error" /\ UNCHANGED <<subdirs, df>>
         ELSE \E names \in {Listing(fs, subdir)} :
              \E order \in Orders(Dates(names)) :
              \E r \in {create_pp_series(names, startyear, endyear, order)} :
                    IF r.err
                    THEN pc' = "verif_error" /\ UNCHANGED <<subdirs, df>>
                    ELSE /\ pc' = pc
                         /\ subdirs' = subdirs \ {subdir}
                         /\ df' = Concat(df, ShortLabel(subdir), r.series)
    /\ UNCHANGED <<seriesVars, metaVars, dirsVars, dfout, segs, segment,
                   df_bound, buttons, returned,
                   fixVars>>

\* lines 138 and 174-180: df is bound, plotted and checked for missing files
PlotAndCheck ==
    /\ pc = "verif_frame"
    /\ subdirs = {}
    /\ df_bound' = TRUE
    /\ IF PlotFails(segment)
       THEN pc' = "verif_error" /\ UNCHANGED buttons
       ELSE LET r == check_for_missing(df.cols, segment, <<>>)
            IN  /\ pc' = IF r.err THEN "verif_error" ELSE "verif_loop"
                /\ buttons' = buttons \o r.buttons
    /\ UNCHANGED <<seriesVars, metaVars, dirsVars, dfout, segs, segment,
                   subdirs, df, returned,
                   fixVars>>

\* line 181: "df if dfout else None" reads df only when dfout is true
VerifReturn ==
    /\ pc = "verif_loop"
    /\ segs = {}
    /\ IF dfout /\ ~df_bound
       THEN pc' = "verif_error" /\ UNCHANGED returned
       ELSE pc' = "verif_done" /\ returned' = IF dfout THEN "df" ELSE "None"
    /\ UNCHANGED <<seriesVars, metaVars, dirsVars, dfout, segs, segment,
                   subdirs, df, df_bound, buttons,
                   fixVars>>

NextVerif ==
    \/ VerifInfer
    \/ VerifFindDirs
    \/ VerifSegment
    \/ AddColumn
    \/ PlotAndCheck
    \/ VerifReturn

SpecVerif == InitVerif /\ [][NextVerif]_vars

(***************************************************************************)
(* Claims about pp_verif, pp_to_dataframe and check_for_missing            *)
(***************************************************************************)

\* the directories whose series make the table of the current segment
TableDirs == all_dirs[segment]

\* the series of one directory of the table
SeriesOfDir(d) ==
    LET names == Listing(fs, d)
    IN  create_pp_series(names, startyear, endyear,
                         CHOOSE o \in Orders(Dates(names)) : TRUE).series

\* the series of the directories of the table
TableSeries == {[d \in TableDirs |-> SeriesOfDir(d)]}

\* the series of d holds a count for year y
HasCount(t, d, y) ==
    \E i \in 1..Len(t[d]) : t[d][i][1] = y /\ t[d][i][2] # NaN

\* the year keys of all the series of the table
AllYears(t) == UNION {SeriesYears(t[d]) : d \in DOMAIN t}

\* the label of a directory: its path from the first "pp" on
LabelOf(d) ==
    LET at == CHOOSE i \in 1..(Len(d) - 1) :
                /\ d[i] = "p" /\ d[i + 1] = "p"
                /\ \A j \in 1..(i - 1) : ~(d[j] = "p" /\ d[j + 1] = "p")
    IN  SubSeq(d, at, Len(d))

\* the component of a label: its first slash-delimited token once "pp" is
\* removed
ComponentOf(label) == PathComponents(Replace(label, Pp, <<>>))[1]

\* the buttons created from the current table for directory d and year y
RequestsFor(d, y) ==
    {i \in 1..Len(buttons) :
        /\ buttons[i].segment = segment
        /\ buttons[i].col = LabelOf(d)
        /\ buttons[i].year = y}

\* check_for_missing has scanned the table of the current segment
TableChecked == pc \in {"verif_loop", "verif_done"} /\ df_bound

C8_NothingToVerify ==
    (pc \in {"verif_loop", "verif_frame", "verif_done", "verif_error"}
       /\ AllDirs(fs, ppdir, model, ftype) = {})
    => /\ DOMAIN all_dirs = {}
       /\ buttons = <<>>
       /\ pc # "verif_error"

\* C8 holds of the calls made with dfout false.
C8_HoldsWithoutDfout == dfout \/ C8_NothingToVerify

(***************************************************************************)
(* The fix button as a process                                             *)
(***************************************************************************)

\* most clicks on the button
MaxClicks == 3

\* exit codes of the frepp process
ExitCodes == {0, 1, 2, 127}

FixComps == { <<"o", "m">>, <<"o", "a">> }

FixYears == {5, 1999, 2003, 12345}

InitFix ==
    /\ pc = "fix_start"
    /\ ppdir = Root
    /\ freppdict = [runname    |-> infer_properties_from_ppdir(Root).runname,
                    platform   |-> infer_properties_from_ppdir(Root).platform,
                    runtype    |-> infer_properties_from_ppdir(Root).runtype,
                    xmlpath    |-> XmlPath,
                    freversion |-> FreVersion]
    /\ IdleSeries
    /\ IdleDirs
    /\ IdleVerif
    /\ IdleFix

\* lines 270-286: create_pp_fix_button(comp, year, freppdict)
CreatePpFixButton ==
    /\ pc = "fix_start"
    /\ \E comp \in FixComps, year \in FixYears :
         buttons' = Append(buttons, [segment |-> <<>>, col |-> <<>>,
                                     comp |-> comp, year |-> year])
    /\ pc' = "fix_idle"
    /\ UNCHANGED <<seriesVars, metaVars, dirsVars, dfout, segs, segment,
                   subdirs, df, df_bound, returned, fixVars>>

\* lines 277-283: a click, the frepp process ending with some exit code
OnButtonClicked ==
    /\ pc = "fix_idle"
    /\ Len(output) < MaxClicks
    /\ \E i \in 1..Len(buttons), code \in ExitCodes :
         /\ output' = Append(output, on_button_clicked(buttons[i], freppdict, code))
         /\ lastrun' = code
    /\ UNCHANGED <<pc, seriesVars, metaVars, dirsVars, verifVars>>

NextFix == CreatePpFixButton \/ OnButtonClicked

SpecFix == InitFix /\ [][NextFix]_vars

(***************************************************************************)
(* Claim about run_frepp_command and the callback                          *)
(***************************************************************************)

\* C7: every click runs the process once, the call returns its exit code,
\* and the callback reports success for 0 and failure for any other code.
C7_ExitCodeReturnedAndReported ==
    output # <<>> =>
        LET last == output[Len(output)]
        IN  /\ last.runs = 1
            /\ last.out = lastrun
            /\ last.said = IF lastrun = 0 THEN "pp job submitted successfully"
                           ELSE "problem submitting"

\* C7 holds of the clicks whose process exits with 0.
C7_HoldsForExitZero == lastrun # 0 \/ C7_ExitCodeReturnedAndReported

====
